---- MODULE Spec2Model ----
(***************************************************************************)
(* backend/transcribe.py: a command-line wrapper around OpenAI Whisper.    *)
(*                                                                         *)
(* One run of the script is one behaviour.  Strings are sequences of       *)
(* characters; a character is a one-letter string, a non-ASCII character   *)
(* is written by its code point ("U+00F3" is o-acute).  The two streams    *)
(* are the sequences of characters written to them so far.                 *)
(* whisper.load_model and model.transcribe are library calls: each either  *)
(* returns or raises an Exception, and the run does not choose which.      *)
(***************************************************************************)
EXTENDS Integers, Sequences, FiniteSets, TLC

VARIABLES argv, pc, stdout, stderr, exitCode, file_path, language_code,
          parseOutcome, checked, loadCalls, loadOutcome, transcribeCalls,
          transcribeOutcome, transcribeArgs, loadArgs, result

vars == <<argv, pc, stdout, stderr, exitCode, file_path, language_code,
          parseOutcome, checked, loadCalls, loadOutcome, transcribeCalls,
          transcribeOutcome, transcribeArgs, loadArgs, result>>

\* ---------------------------------------------------------------- bounds
\* Longest command line explored (number of arguments after the script name).
MaxArgs == 3

\* ------------------------------------------------------------- constants
MODEL_SIZE == "base"

USE_FP16 == FALSE

NL == "\n"

\* ------------------------------------------------------------ environment
\* Arguments a command line is built from: the options of the parser, an
\* abbreviated and an attached form, an unknown option, two paths and a
\* language code.  The path made of a quote and a backslash is there for
\* the JSON escaping of the "not found" message.
Tokens ==
  { <<"-","h">>, <<"-","-","h","e","l","p">>, <<"-","l">>, <<"-","-","l","a","n","g","u","a","g","e">>, <<"-","-","l","a","n","g">>, <<"-","l","e","n">>, <<"-","x">>,
    <<"a">>, <<"b">>, <<"\"","\\">>, <<"e","n">> }

\* Paths for which os.path.exists answers True.
ExistingFiles == { <<"a">>, <<"e","n">> }

\* Texts model.transcribe may return in result["text"].
Texts == { <<>>, <<"h","i">>, <<"\"", "\\">>, <<"a", NL, "U+00E9">> }

\* str(e) of the exceptions the library calls may raise.
ExcMessages == { <<"x">>, <<"\"", NL>>, <<"U+00F3", "\\">> }

\* All command lines of at most n arguments.
RECURSIVE ArgvUpTo(_)
ArgvUpTo(n) ==
  IF n = 0 THEN { <<>> }
  ELSE LET shorter == ArgvUpTo(n - 1)
       IN  shorter \cup { Append(a, t) : a \in { s \in shorter : Len(s) = n - 1 }, t \in Tokens }

\* --------------------------------------------------------------- json.dumps
NonAsciiChars == { "U+00E9", "U+00F3" }

\* The four hex digits json.dumps writes after \u (ensure_ascii=True).
CodePoint ==
  [ c \in NonAsciiChars |->
      IF c = "U+00E9" THEN <<"0", "0", "e", "9">> ELSE <<"0", "0", "f", "3">> ]

\* EscapeChar with the backslash left as it is.
EscapeChar_NoBackslash(c) ==
  IF c = "\"" THEN <<"\\", "\"">>
  ELSE IF c = NL THEN <<"\\", "n">>
  ELSE IF c \in NonAsciiChars THEN <<"\\", "u">> \o CodePoint[c]
  ELSE <<c>>

\* One character inside a JSON string literal, as json.dumps escapes it.
EscapeChar(c) ==
  IF c = "\"" THEN <<"\\", "\"">>
  ELSE IF c = "\\" THEN <<"\\", "\\">>
  ELSE IF c = NL THEN <<"\\", "n">>
  ELSE IF c \in NonAsciiChars THEN <<"\\", "u">> \o CodePoint[c]
  ELSE <<c>>

\* Every character of s escaped, in order (the two halves of s one after
\* the other).
RECURSIVE EscapeAll(_)
EscapeAll(s) ==
  IF s = <<>> THEN <<>>
  ELSE IF Len(s) = 1 THEN EscapeChar(s[1])
  ELSE LET h == Len(s) \div 2
       IN  EscapeAll(SubSeq(s, 1, h)) \o EscapeAll(SubSeq(s, h + 1, Len(s)))

\* A string as a JSON string literal.
encode_basestring_ascii(s) == <<"\"">> \o EscapeAll(s) \o <<"\"">>

\* json.dumps({key: val}) with the default separators.
json_dumps(key, val) ==
  <<"{">> \o encode_basestring_ascii(key) \o <<":", " ">>
          \o encode_basestring_ascii(val) \o <<"}">>

\* print(s, file=stream): the text followed by a newline.
print(s) == s \o <<NL>>

K_error == <<"e","r","r","o","r">>

K_transcription == <<"t","r","a","n","s","c","r","i","p","t","i","o","n">>

\* f"Archivo de audio no encontrado: {file_path}"
NotFoundMessage(path) == <<"A","r","c","h","i","v","o"," ","d","e"," ","a","u","d","i","o"," ","n","o"," ","e",
       "n","c","o","n","t","r","a","d","o",":"," ">> \o path

\* f"Error durante el proceso de transcripción: {str(e)}"
error_message(e) ==
  <<"E","r","r","o","r"," ","d","u","r","a","n","t","e"," ","e","l"," ","p","r","o","c",
       "e","s","o"," ","d","e"," ","t","r","a","n","s","c","r","i","p","c","i","U+00F3",
       "n",":"," ">> \o e

\* ----------------------------------------------------------------- argparse
\* parser.format_usage()
UsageLine == <<"u","s","a","g","e",":"," ","t","r","a","n","s","c","r","i","b","e",".","p","y"," ",
       "[","-","h","]"," ","[","-","l"," ","L","A","N","G","U","A","G","E","]"," ","a","u",
       "d","i","o","_","f","i","l","e","\n">>

\* parser.print_help(): the usage line, a blank line and the description.
\* The listing of the arguments that follows is laid out to the terminal
\* width and is left out; what is kept already starts with "usage:".
HelpText ==
  UsageLine \o <<NL>> \o
  <<"T","r","a","n","s","c","r","i","b","e"," ","u","n"," ","a","r","c","h","i","v","o",
       " ","d","e"," ","a","u","d","i","o"," ","u","t","i","l","i","z","a","n","d","o"," ",
       "O","p","e","n","A","I"," ","W","h","i","s","p","e","r",".","\n">>

ErrorPrefix == <<"t","r","a","n","s","c","r","i","b","e",".","p","y",":"," ","e","r","r","o","r",":",
       " ">>

MsgExpectedOne == <<"a","r","g","u","m","e","n","t"," ","-","l","/","-","-","l","a","n","g","u","a","g",
       "e",":"," ","e","x","p","e","c","t","e","d"," ","o","n","e"," ","a","r","g","u","m",
       "e","n","t">>

MsgIgnoredExplicit == <<"a","r","g","u","m","e","n","t"," ","-","h","/","-","-","h","e","l","p",":"," ","i",
       "g","n","o","r","e","d"," ","e","x","p","l","i","c","i","t"," ","a","r","g","u","m",
       "e","n","t">>

MsgRequired == <<"t","h","e"," ","f","o","l","l","o","w","i","n","g"," ","a","r","g","u","m","e","n",
       "t","s"," ","a","r","e"," ","r","e","q","u","i","r","e","d",":"," ","a","u","d","i",
       "o","_","f","i","l","e">>

MsgUnrecognized == <<"u","n","r","e","c","o","g","n","i","z","e","d"," ","a","r","g","u","m","e","n","t",
       "s",":">>

StartsWith(t, p) == Len(p) <= Len(t) /\ SubSeq(t, 1, Len(p)) = p

\* ArgumentParser._parse_optional for the parser of the script (options
\* -h/--help and -l/--language): is the argument a positional ("A"), one of
\* the two options, or an option the parser does not know?  explicit is the
\* value attached to a short option (-len).  Forms with "=", "--" and
\* negative numbers need characters the arguments above do not have.
Classify(t) ==
  IF t = <<>> \/ Head(t) # "-" THEN [kind |-> "A", explicit |-> <<>>]
  ELSE IF t \in { <<"-","h">>, <<"-","-","h","e","l","p">> } THEN [kind |-> "help", explicit |-> <<>>]
  ELSE IF t \in { <<"-","l">>, <<"-","-","l","a","n","g","u","a","g","e">> } THEN [kind |-> "language", explicit |-> <<>>]
  ELSE IF Len(t) = 1 THEN [kind |-> "A", explicit |-> <<>>]
  ELSE IF StartsWith(t, <<"-","-">>) /\ Len(t) > 2 /\ StartsWith(<<"-","-","h","e","l","p">>, t)
       THEN [kind |-> "help", explicit |-> <<>>]
  ELSE IF StartsWith(t, <<"-","-">>) /\ Len(t) > 2 /\ StartsWith(<<"-","-","l","a","n","g","u","a","g","e">>, t)
       THEN [kind |-> "language", explicit |-> <<>>]
  ELSE IF ~StartsWith(t, <<"-","-">>) /\ StartsWith(t, <<"-","h">>)
       THEN [kind |-> "help", explicit |-> SubSeq(t, 3, Len(t))]
  ELSE IF ~StartsWith(t, <<"-","-">>) /\ StartsWith(t, <<"-","l">>)
       THEN [kind |-> "language", explicit |-> SubSeq(t, 3, Len(t))]
  ELSE IF \E i \in 1..Len(t) : t[i] = " " THEN [kind |-> "A", explicit |-> <<>>]
  ELSE [kind |-> "unknown", explicit |-> <<>>]

RECURSIVE JoinArgs(_)
JoinArgs(ts) == IF ts = <<>> THEN <<>> ELSE <<" ">> \o Head(ts) \o JoinArgs(Tail(ts))

\* ArgumentParser.parse_args over the arguments from position i on.  audio
\* and lang hold what has been stored so far (<<>> is "not given", <<v>> is
\* the value v), extras the arguments nothing consumed.  -h acts as soon as
\* it is met, a missing value of -l is an error as soon as it is met, the
\* missing audio_file and the unrecognized arguments are errors at the end.
RECURSIVE parse_from(_, _, _, _, _)
parse_from(args, i, audio, lang, extras) ==
  IF i > Len(args) THEN
    IF audio = <<>> THEN
      [kind |-> "error", audio_file |-> <<>>, language |-> <<>>, message |-> MsgRequired]
    ELSE IF extras # <<>> THEN
      [kind |-> "error", audio_file |-> <<>>, language |-> <<>>,
       message |-> MsgUnrecognized \o JoinArgs(extras)]
    ELSE [kind |-> "ok", audio_file |-> audio[1], language |-> lang, message |-> <<>>]
  ELSE
    LET t == args[i]
        c == Classify(t)
    IN  IF c.kind = "A" THEN
          IF audio = <<>> THEN parse_from(args, i + 1, <<t>>, lang, extras)
          ELSE parse_from(args, i + 1, audio, lang, Append(extras, t))
        ELSE IF c.kind = "help" THEN
          IF c.explicit = <<>> THEN
            [kind |-> "help", audio_file |-> <<>>, language |-> <<>>, message |-> <<>>]
          ELSE
            [kind |-> "error", audio_file |-> <<>>, language |-> <<>>,
             message |-> MsgIgnoredExplicit \o <<" ", "'">> \o c.explicit \o <<"'">>]
        ELSE IF c.kind = "language" THEN
          IF c.explicit # <<>> THEN
            parse_from(args, i + 1, audio, <<c.explicit>>, extras)
          ELSE IF i + 1 <= Len(args) /\ Classify(args[i + 1]).kind = "A" THEN
            parse_from(args, i + 2, audio, <<args[i + 1]>>, extras)
          ELSE
            [kind |-> "error", audio_file |-> <<>>, language |-> <<>>,
             message |-> MsgExpectedOne]
        ELSE parse_from(args, i + 1, audio, lang, Append(extras, t))

parse_args(args) == parse_from(args, 1, <<>>, <<>>, <<>>)

\* ArgumentParser.error: the usage line and the message, on stderr.
ErrorText(message) == UsageLine \o print(ErrorPrefix \o message)

\* --------------------------------------------------------------- the run
Init ==
  /\ argv \in ArgvUpTo(MaxArgs)
  /\ pc = "main"
  /\ stdout = <<>>
  /\ stderr = <<>>
  /\ exitCode = -1
  /\ file_path = <<>>
  /\ language_code = <<>>
  /\ parseOutcome = "none"
  /\ checked = "no"
  /\ loadCalls = 0
  /\ loadOutcome = "none"
  /\ transcribeCalls = 0
  /\ transcribeOutcome = "none"
  /\ transcribeArgs = <<>>
  /\ loadArgs = <<>>
  /\ result = <<>>

\* os.path.exists(path)
exists(path) == path \in ExistingFiles

\* sys.exit(code)
sys_exit(code) == exitCode' = code /\ pc' = "exited"

\* MainNoArgs reporting the missing arguments the way parser.error does.
MainNoArgs_Exit2 ==
  /\ pc = "main"
  /\ Len(argv) = 0
  /\ stderr' = stderr \o HelpText
  /\ sys_exit(2)
  /\ UNCHANGED <<argv, loadArgs, stdout, file_path, language_code, parseOutcome, checked,
                 loadCalls, loadOutcome, transcribeCalls, transcribeOutcome,
                 transcribeArgs, result>>

\* MainNoArgs with parser.print_help() left on its default stream.
MainNoArgs_ToStdout ==
  /\ pc = "main"
  /\ Len(argv) = 0
  /\ stdout' = stdout \o HelpText
  /\ sys_exit(1)
  /\ UNCHANGED <<argv, loadArgs, stderr, file_path, language_code, parseOutcome, checked,
                 loadCalls, loadOutcome, transcribeCalls, transcribeOutcome,
                 transcribeArgs, result>>

\* len(sys.argv) == 1: print the help on stderr and exit with 1.
MainNoArgs ==
  /\ pc = "main"
  /\ Len(argv) = 0
  /\ stderr' = stderr \o HelpText
  /\ sys_exit(1)
  /\ UNCHANGED <<argv, loadArgs, stdout, file_path, language_code, parseOutcome, checked,
                 loadCalls, loadOutcome, transcribeCalls, transcribeOutcome,
                 transcribeArgs, result>>

\* parser.parse_args() meets -h/--help: the help on stdout, exit with 0.
ParseHelp ==
  /\ pc = "main"
  /\ Len(argv) # 0
  /\ parse_args(argv).kind = "help"
  /\ parseOutcome' = "help"
  /\ stdout' = stdout \o HelpText
  /\ sys_exit(0)
  /\ UNCHANGED <<argv, loadArgs, stderr, file_path, language_code, checked, loadCalls,
                 loadOutcome, transcribeCalls, transcribeOutcome, transcribeArgs,
                 result>>

\* parser.parse_args() rejects the command line: usage and message on
\* stderr, exit with 2 (ArgumentParser.error).
ParseError ==
  /\ pc = "main"
  /\ Len(argv) # 0
  /\ parse_args(argv).kind = "error"
  /\ parseOutcome' = "error"
  /\ stderr' = stderr \o ErrorText(parse_args(argv).message)
  /\ sys_exit(2)
  /\ UNCHANGED <<argv, loadArgs, stdout, file_path, language_code, checked, loadCalls,
                 loadOutcome, transcribeCalls, transcribeOutcome, transcribeArgs,
                 result>>

\* parser.parse_args() returns; transcribe_audio(args.audio_file,
\* args.language) is entered.
ParseOk ==
  /\ pc = "main"
  /\ Len(argv) # 0
  /\ parse_args(argv).kind = "ok"
  /\ parseOutcome' = "ok"
  /\ file_path' = parse_args(argv).audio_file
  /\ language_code' = parse_args(argv).language
  /\ pc' = "exists"
  /\ UNCHANGED <<argv, loadArgs, stdout, stderr, exitCode, checked, loadCalls, loadOutcome,
                 transcribeCalls, transcribeOutcome, transcribeArgs, result>>

\* CheckMissing with the error object printed without file=sys.stderr.
CheckMissing_ToStdout ==
  /\ pc = "exists"
  /\ ~exists(file_path)
  /\ checked' = "missing"
  /\ stdout' = stdout \o print(json_dumps(K_error, NotFoundMessage(file_path)))
  /\ sys_exit(1)
  /\ UNCHANGED <<argv, loadArgs, stderr, file_path, language_code, parseOutcome, loadCalls,
                 loadOutcome, transcribeCalls, transcribeOutcome, transcribeArgs,
                 result>>

\* CheckMissing without the sys.exit(1): the run goes on into the try block.
CheckMissing_NoExit ==
  /\ pc = "exists"
  /\ ~exists(file_path)
  /\ checked' = "missing"
  /\ stderr' = stderr \o print(json_dumps(K_error, NotFoundMessage(file_path)))
  /\ pc' = "load"
  /\ UNCHANGED <<argv, loadArgs, stdout, exitCode, file_path, language_code, parseOutcome,
                 loadCalls, loadOutcome, transcribeCalls, transcribeOutcome,
                 transcribeArgs, result>>

\* if not os.path.exists(file_path): the error object on stderr, exit with 1.
CheckMissing ==
  /\ pc = "exists"
  /\ ~exists(file_path)
  /\ checked' = "missing"
  /\ stderr' = stderr \o print(json_dumps(K_error, NotFoundMessage(file_path)))
  /\ sys_exit(1)
  /\ UNCHANGED <<argv, loadArgs, stdout, file_path, language_code, parseOutcome, loadCalls,
                 loadOutcome, transcribeCalls, transcribeOutcome, transcribeArgs,
                 result>>

\* The file exists: on to the try block.
CheckFound ==
  /\ pc = "exists"
  /\ exists(file_path)
  /\ checked' = "found"
  /\ pc' = "load"
  /\ UNCHANGED <<argv, loadArgs, stdout, stderr, exitCode, file_path, language_code,
                 parseOutcome, loadCalls, loadOutcome, transcribeCalls,
                 transcribeOutcome, transcribeArgs, result>>

\* HandleException printing the message itself instead of a JSON object.
HandleException_PlainText(e) ==
  /\ stderr' = stderr \o print(error_message(e))
  /\ sys_exit(1)

\* No handler at all: the interpreter prints a traceback and exits with 1.
HandleException_Uncaught(e) ==
  /\ stderr' = stderr \o <<"T","r","a","c","e","b","a","c","k"," ","(","m","o","s","t"," ","r","e","c","e","n",
       "t"," ","c","a","l","l"," ","l","a","s","t",")",":","\n">> \o print(e)
  /\ sys_exit(1)

\* except Exception as e: the error object on stderr, exit with 1.
HandleException(e) ==
  /\ stderr' = stderr \o print(json_dumps(K_error, error_message(e)))
  /\ sys_exit(1)

\* model = whisper.load_model(MODEL_SIZE) returns.
LoadOk ==
  /\ pc = "load"
  /\ loadCalls' = loadCalls + 1
  /\ loadArgs' = Append(loadArgs, MODEL_SIZE)
  /\ loadOutcome' = "ok"
  /\ pc' = "transcribe"
  /\ UNCHANGED <<argv, stdout, stderr, exitCode, file_path, language_code,
                 parseOutcome, checked, transcribeCalls, transcribeOutcome,
                 transcribeArgs, result>>

\* whisper.load_model(MODEL_SIZE) raises e.
LoadRaise(e) ==
  /\ pc = "load"
  /\ loadCalls' = loadCalls + 1
  /\ loadArgs' = Append(loadArgs, MODEL_SIZE)
  /\ loadOutcome' = "raise"
  /\ HandleException(e)
  /\ UNCHANGED <<argv, stdout, file_path, language_code, parseOutcome, checked,
                 transcribeCalls, transcribeOutcome, transcribeArgs, result>>

\* TranscribeCall without the language hint.
TranscribeCall_NoLanguage == [file |-> file_path, fp16 |-> USE_FP16, language |-> <<>>]

\* The arguments of model.transcribe(file_path, fp16=USE_FP16,
\* language=language_code).
TranscribeCall == [file |-> file_path, fp16 |-> USE_FP16, language |-> language_code]

\* TranscribeOk printing the text itself instead of a JSON object.
TranscribeOk_RawText(t) ==
  /\ pc = "transcribe"
  /\ transcribeCalls' = transcribeCalls + 1
  /\ transcribeArgs' = Append(transcribeArgs, TranscribeCall)
  /\ transcribeOutcome' = "ok"
  /\ result' = <<t>>
  /\ stdout' = stdout \o print(t)
  /\ sys_exit(0)
  /\ UNCHANGED <<argv, loadArgs, stderr, file_path, language_code, parseOutcome, checked,
                 loadCalls, loadOutcome>>

\* model.transcribe(...) returns a result whose text is t; the
\* transcription object is printed on stdout and the script ends.
TranscribeOk(t) ==
  /\ pc = "transcribe"
  /\ transcribeCalls' = transcribeCalls + 1
  /\ transcribeArgs' = Append(transcribeArgs, TranscribeCall)
  /\ transcribeOutcome' = "ok"
  /\ result' = <<t>>
  /\ stdout' = stdout \o print(json_dumps(K_transcription, t))
  /\ sys_exit(0)
  /\ UNCHANGED <<argv, loadArgs, stderr, file_path, language_code, parseOutcome, checked,
                 loadCalls, loadOutcome>>

\* TranscribeRaise with an empty transcription printed before the error.
TranscribeRaise_Partial(e) ==
  /\ pc = "transcribe"
  /\ transcribeCalls' = transcribeCalls + 1
  /\ transcribeArgs' = Append(transcribeArgs, TranscribeCall)
  /\ transcribeOutcome' = "raise"
  /\ stdout' = stdout \o print(json_dumps(K_transcription, <<>>))
  /\ HandleException(e)
  /\ UNCHANGED <<argv, loadArgs, file_path, language_code, parseOutcome, checked,
                 loadCalls, loadOutcome, result>>

\* model.transcribe(...) raises e.
TranscribeRaise(e) ==
  /\ pc = "transcribe"
  /\ transcribeCalls' = transcribeCalls + 1
  /\ transcribeArgs' = Append(transcribeArgs, TranscribeCall)
  /\ transcribeOutcome' = "raise"
  /\ HandleException(e)
  /\ UNCHANGED <<argv, loadArgs, stdout, file_path, language_code, parseOutcome, checked,
                 loadCalls, loadOutcome, result>>

Next ==
  \/ MainNoArgs
  \/ ParseHelp
  \/ ParseError
  \/ ParseOk
  \/ CheckMissing
  \/ CheckFound
  \/ LoadOk
  \/ \E e \in ExcMessages : LoadRaise(e)
  \/ \E t \in Texts : TranscribeOk(t)
  \/ \E e \in ExcMessages : TranscribeRaise(e)

Spec == Init /\ [][Next]_vars

\* The steps the script takes on its own, without waiting for the library.
OwnSteps == MainNoArgs \/ ParseHelp \/ ParseError \/ ParseOk \/ CheckMissing \/ CheckFound

FairSpec == Spec /\ WF_vars(OwnSteps)

TypeOK ==
  /\ pc \in {"main", "exists", "load", "transcribe", "exited"}
  /\ exitCode \in {-1, 0, 1, 2}
  /\ parseOutcome \in {"none", "help", "error", "ok"}
  /\ checked \in {"no", "found", "missing"}
  /\ loadOutcome \in {"none", "ok", "raise"}
  /\ transcribeOutcome \in {"none", "ok", "raise"}
  /\ loadCalls \in Nat /\ transcribeCalls \in Nat
  /\ (pc = "exited") = (exitCode # -1)

\* ------------------------------------------------------------ reading JSON
\* What a consumer of the streams does with them.
JsonWhitespace == { " ", NL }

RECURSIVE SkipWs(_, _)
SkipWs(s, i) == IF i <= Len(s) /\ s[i] \in JsonWhitespace THEN SkipWs(s, i + 1) ELSE i

\* Position j of s follows an odd number of backslashes in a row: the
\* character there is taken by the escape before it.
Escaped(s, j) ==
  IF j = 1 \/ s[j - 1] # "\\" THEN FALSE
  ELSE LET others == { k \in 1..(j - 1) : s[k] # "\\" }
           last == IF others = {} THEN 0 ELSE CHOOSE k \in others : \A m \in others : m <= k
       IN  (j - 1 - last) % 2 = 1

\* An escape sequence starts at position j of s and is one a JSON string
\* may hold.
GoodEscape(s, j) ==
  /\ j + 1 <= Len(s)
  /\ \/ s[j + 1] \in {"\"", "\\", "/", "n"}
     \/ /\ s[j + 1] = "u"
        /\ j + 5 <= Len(s)
        /\ \E c \in NonAsciiChars : CodePoint[c] = SubSeq(s, j + 2, j + 5)

\* The position of the quote that closes the string literal whose body
\* starts at position i, 0 when the literal is not well formed.
StringEnd(s, i) ==
  LET quotes == { j \in i..Len(s) : s[j] = "\"" /\ ~Escaped(s, j) }
      e == CHOOSE j \in quotes : \A m \in quotes : j <= m
  IN  IF quotes = {} THEN 0
      ELSE IF \A j \in i..(e - 1) :
                /\ s[j] # NL
                /\ (s[j] = "\\" /\ ~Escaped(s, j)) => GoodEscape(s, j)
           THEN e
           ELSE 0

\* Position j of the literal body b starts a character or an escape
\* sequence (it is not inside one).
UnitStart(b, j) ==
  /\ ~Escaped(b, j)
  /\ ~\E k \in 1..4 :
        /\ j - k - 1 >= 1
        /\ b[j - k - 1] = "\\"
        /\ b[j - k] = "u"
        /\ ~Escaped(b, j - k - 1)

\* The character the unit at the start of b stands for, when b is one unit.
DecodeUnit(b) ==
  IF b[1] # "\\" THEN b[1]
  ELSE IF b[2] = "n" THEN NL
  ELSE IF b[2] = "u" THEN CHOOSE c \in NonAsciiChars : CodePoint[c] = SubSeq(b, 3, 6)
  ELSE b[2]

\* The string a well-formed literal body stands for: a body of one unit is
\* decoded, a longer one is cut between two units near its middle.  A unit
\* is at most six positions long, so the positions around the middle hold
\* the start of one whenever the body has a second unit.
RECURSIVE Unescape(_)
Unescape(b) ==
  IF b = <<>> THEN <<>>
  ELSE LET h == Len(b) \div 2
           lo == IF h - 5 < 2 THEN 2 ELSE h - 5
           hi == IF h + 6 > Len(b) THEN Len(b) ELSE h + 6
           starts == { j \in lo..hi : UnitStart(b, j) }
           upper == { j \in starts : j > h }
           cut == IF upper # {} THEN CHOOSE j \in upper : \A m \in upper : j <= m
                  ELSE CHOOSE j \in starts : \A m \in starts : m <= j
       IN  IF starts = {} THEN <<DecodeUnit(b)>>
           ELSE Unescape(SubSeq(b, 1, cut - 1)) \o Unescape(SubSeq(b, cut, Len(b)))

NotJson == [ok |-> FALSE, key |-> <<>>, val |-> <<>>]

\* json.loads of a text holding one object with one string member.
json_loads(s) ==
  LET i1 == SkipWs(s, 1)
  IN  IF ~(i1 <= Len(s) /\ s[i1] = "{") THEN NotJson
      ELSE LET i2 == SkipWs(s, i1 + 1)
      IN  IF ~(i2 <= Len(s) /\ s[i2] = "\"") THEN NotJson
      ELSE LET k == StringEnd(s, i2 + 1)
               i3 == SkipWs(s, k + 1)
      IN  IF ~(k # 0 /\ i3 <= Len(s) /\ s[i3] = ":") THEN NotJson
      ELSE LET i4 == SkipWs(s, i3 + 1)
      IN  IF ~(i4 <= Len(s) /\ s[i4] = "\"") THEN NotJson
      ELSE LET v == StringEnd(s, i4 + 1)
               i5 == SkipWs(s, v + 1)
      IN  IF ~(v # 0 /\ i5 <= Len(s) /\ s[i5] = "}") THEN NotJson
      ELSE IF SkipWs(s, i5 + 1) # Len(s) + 1 THEN NotJson
      ELSE [ok |-> TRUE,
            key |-> Unescape(SubSeq(s, i2 + 1, k - 1)),
            val |-> Unescape(SubSeq(s, i4 + 1, v - 1))]

\* The stream holds one line and nothing else.
SingleLine(s) == Len(s) > 0 /\ s[Len(s)] = NL /\ \A i \in 1..(Len(s) - 1) : s[i] # NL

\* The stream holds one single-line JSON object {"error": <message>}.
ErrorObject(s) == SingleLine(s) /\ json_loads(s).ok /\ json_loads(s).key = K_error

\* The stream holds one single-line JSON object {"transcription": text}.
TranscriptionObject(s, text) ==
  SingleLine(s) /\ json_loads(s) = [ok |-> TRUE, key |-> K_transcription, val |-> text]

\* ------------------------------------------------------------- properties
\* The parsed audio_file names a path that does not exist.
MissingPath == parseOutcome = "ok" /\ ~exists(file_path)

\* Both library calls were made and returned.
BothReturned ==
  /\ pc = "exited"
  /\ parseOutcome = "ok"
  /\ checked = "found"
  /\ loadOutcome = "ok"
  /\ transcribeOutcome = "ok"

\* C1: a run whose audio_file does not exist never writes to stdout, ends,
\* and ends with exit code 1 and a JSON object with an "error" key on stderr,
\* with or without -l/--language.
C1_MissingFile ==
  /\ [](MissingPath =>
          /\ stdout = <<>>
          /\ (pc = "exited" => exitCode = 1 /\ ErrorObject(stderr)))
  /\ (MissingPath ~> pc = "exited")

C1_Witness ==
  /\ pc = "exited"
  /\ MissingPath
  /\ checked = "missing"
  /\ language_code # <<>>

\* C2: with an existing file, no language flag and both library calls
\* returning, the run ends with exit code 0, stdout holds the object
\* {"transcription": text} whose text reads back as the model's result
\* text, and stderr is empty.
C2_NoFlagSuccess ==
  (BothReturned /\ language_code = <<>>) =>
      /\ exitCode = 0
      /\ TranscriptionObject(stdout, result[1])
      /\ stderr = <<>>

C2_Witness ==
  /\ BothReturned
  /\ language_code = <<>>
  /\ result = << <<"\"", "\\">> >>

\* C3 as stated: the exit code is 0 on success and 1 on every error,
\* argument-parsing failures included.
C3_ExitZeroOrOne ==
  pc = "exited" =>
    exitCode = (IF transcribeOutcome = "ok" \/ parseOutcome = "help" THEN 0 ELSE 1)

\* C3: the exit code is 0 after a transcription or a help request, 2 when
\* the argument parser rejects the command line, and 1 on every other
\* error (no arguments, missing file, failure of a library call); a run
\* that has not ended has no exit code.
C3_ExitCodes ==
  IF pc # "exited" THEN exitCode = -1
  ELSE exitCode = (IF parseOutcome = "error" THEN 2
                   ELSE IF transcribeOutcome = "ok" \/ parseOutcome = "help" THEN 0
                   ELSE 1)

C3_Witness == pc = "exited" /\ parseOutcome = "error" /\ exitCode = 2

\* C4 as stated: after every failed run stderr holds one single-line JSON
\* object {"error": message}.
C4_AllFailuresJson == (pc = "exited" /\ exitCode # 0) => ErrorObject(stderr)

\* C4: after a failed run that got past the argument parser stderr holds
\* one single-line JSON object {"error": message}; after a failed run that
\* did not (no arguments, rejected command line) stderr holds the usage
\* text of the parser, which is not JSON.
C4_FailureStream ==
  (pc = "exited" /\ exitCode # 0) =>
      IF parseOutcome = "ok" THEN ErrorObject(stderr)
      ELSE StartsWith(stderr, UsageLine) /\ ~json_loads(stderr).ok

C4_Witness ==
  /\ pc = "exited"
  /\ exitCode = 1
  /\ loadOutcome = "raise"
  /\ ErrorObject(stderr)

\* C5 as stated: after every run that ends with exit code 0, a help run
\* included, stdout holds one single-line JSON object {"transcription": text}.
C5_AllSuccessesJson ==
  (pc = "exited" /\ exitCode = 0) =>
      /\ SingleLine(stdout)
      /\ json_loads(stdout).ok
      /\ json_loads(stdout).key = K_transcription

\* C5: after a run that ends with exit code 0 stdout holds one single-line
\* JSON object {"transcription": text}, unless the run was a help request:
\* then stdout holds the help text, which is not JSON.
C5_SuccessStream ==
  (pc = "exited" /\ exitCode = 0) =>
      IF parseOutcome = "help" THEN stdout = HelpText /\ ~json_loads(stdout).ok
      ELSE TranscriptionObject(stdout, result[1])

C5_Witness ==
  /\ pc = "exited"
  /\ exitCode = 0
  /\ result = << <<"a", NL, "U+00E9">> >>
  /\ json_loads(stdout).val = <<"a", NL, "U+00E9">>

\* C6: a run with no arguments ends with exit code 1 and the usage text on
\* stderr, without having parsed arguments, looked for a file, called the
\* library or written to stdout.
C6_NoArguments ==
  (argv = <<>> /\ pc = "exited") =>
      /\ exitCode = 1
      /\ stderr = HelpText
      /\ StartsWith(stderr, UsageLine)
      /\ stdout = <<>>
      /\ parseOutcome = "none"
      /\ checked = "no"
      /\ loadCalls = 0
      /\ transcribeCalls = 0

C6_Witness == argv = <<>> /\ pc = "exited" /\ stderr # <<>>

\* C7: once a library call has raised, the run has ended with exit code 1
\* and the JSON error object, carrying the message of the exception, is on
\* stderr.
C7_LibraryFailure ==
  (loadOutcome = "raise" \/ transcribeOutcome = "raise") =>
      /\ checked = "found"
      /\ pc = "exited"
      /\ exitCode = 1
      /\ ErrorObject(stderr)
      /\ \E e \in ExcMessages : json_loads(stderr).val = error_message(e)

C7_Witness ==
  /\ transcribeOutcome = "raise"
  /\ pc = "exited"
  /\ json_loads(stderr).val = error_message(<<"\"", NL>>)

\* The arguments "-l v path" (or "--language v path") for a value v that
\* is not itself an option.
LanguageThenPath(v, path) ==
  /\ Len(argv) = 3
  /\ argv[1] \in { <<"-","l">>, <<"-","-","l","a","n","g","u","a","g","e">> }
  /\ argv[2] = v
  /\ argv[3] = path

\* C8: whatever the language code, it is not validated and reaches the
\* transcription call as given (no flag reaches it as "none"), and a run
\* in which both library calls return ends as the run without the flag
\* does: exit code 0, the transcription object on stdout, stderr empty.
C8_AnyLanguage ==
  /\ \A v \in Tokens, path \in Tokens :
       (LanguageThenPath(v, path) /\ Head(v) # "-" /\ Head(path) # "-" /\ pc # "main") =>
           parseOutcome = "ok" /\ language_code = <<v>> /\ file_path = path
  /\ \A path \in Tokens :
       (argv = <<path>> /\ Head(path) # "-" /\ pc # "main") =>
           parseOutcome = "ok" /\ language_code = <<>> /\ file_path = path
  /\ transcribeCalls > 0 =>
       transcribeArgs = << [file |-> file_path, fp16 |-> FALSE, language |-> language_code] >>
  /\ BothReturned =>
       /\ exitCode = 0
       /\ TranscriptionObject(stdout, result[1])
       /\ stderr = <<>>

C8_Witness ==
  /\ BothReturned
  /\ LanguageThenPath(<<"\"","\\">>, <<"a">>)
  /\ transcribeArgs[1].language = << <<"\"","\\">> >>

\* C9: the model is loaded only after the file was found, nothing of the
\* library is called when the file is missing, and the transcription call
\* is made only after the model load has returned.
C9_CheckBeforeModel ==
  /\ (loadCalls > 0 \/ pc \in {"load", "transcribe"}) => checked = "found"
  /\ checked = "missing" => (loadCalls = 0 /\ transcribeCalls = 0 /\ pc = "exited")
  /\ (transcribeCalls > 0 \/ pc = "transcribe") => loadOutcome = "ok"
  /\ loadCalls > 0 => loadArgs = <<MODEL_SIZE>>

C9_Witness == pc = "transcribe" /\ checked = "found" /\ loadOutcome = "ok"

\* C10: each library call is made at most once, a call that raises ends
\* the run with exit code 1 without a second attempt, and a run that ends
\* with exit code 1 has written nothing to stdout.
C10_OnceNoPartial ==
  /\ loadCalls <= 1 /\ transcribeCalls <= 1
  /\ Len(loadArgs) = loadCalls /\ Len(transcribeArgs) = transcribeCalls
  /\ loadOutcome = "raise" =>
       (pc = "exited" /\ exitCode = 1 /\ loadCalls = 1 /\ transcribeCalls = 0)
  /\ transcribeOutcome = "raise" =>
       (pc = "exited" /\ exitCode = 1 /\ loadCalls = 1 /\ transcribeCalls = 1)
  /\ exitCode = 1 => stdout = <<>>

C10_Witness ==
  /\ pc = "exited"
  /\ exitCode = 1
  /\ loadCalls = 1
  /\ transcribeCalls = 1
  /\ stdout = <<>>

====
